---- MODULE Spec2Model ----
(***************************************************************************)
(* Model of the client-side bootstrap gate of xagent's frontend:           *)
(*   - the useSetupStatus hook   (frontend/src/hooks/use-setup-status.ts)  *)
(*   - isAuthPublicPath          (frontend/src/lib/auth-pages.ts)          *)
(*   - LayoutContent             (layout component using isAuthPublicPath) *)
(*   - the policies RegisterPage and SetupPage hand to the hook            *)
(*                                                                         *)
(* One component instance using the hook is modelled.  Every run of the    *)
(* hook's effect is an "activation": it owns its isCancelled flag, the     *)
(* policy flags captured by the closure and the position of its async      *)
(* function checkSetupStatus, which suspends at `await apiRequest(...)`    *)
(* and at `await response.json()`.                                         *)
(***************************************************************************)
EXTENDS Integers, Sequences, FiniteSets, TLC

VARIABLES
    state,      \* the hook's useState value (SetupStatusState)
    mounted,    \* whether the component using the hook is mounted
    nact,       \* number of effect runs (activations) so far
    act,        \* per activation: closure variables and position
    settled,    \* the latest settlement of an await: activation, response, body
    href,       \* window.location.href as last assigned by the hook
    pathname,   \* usePathname() as seen by LayoutContent
    token,      \* useAuth().token as seen by LayoutContent
    layout,     \* what LayoutContent rendered last
    form,       \* the useState values and handler position of the page's form
    chain       \* the documents the browser loaded, oldest first

vars == <<state, mounted, nact, act, settled, href, pathname, token, layout,
          form, chain>>

probeVars == <<state, mounted, nact, act, settled, href>>
layoutVars == <<pathname, token, layout>>
pageVars == <<form, chain>>

-----------------------------------------------------------------------------
(* Bounds *)

\* number of effect runs of the one component instance
MaxAct == 2

Acts == 1..MaxAct

-----------------------------------------------------------------------------
(* JavaScript values, as far as the code looks at them *)

Str(s) == [kind |-> "string", val |-> s]
Null == [kind |-> "null", val |-> ""]
Undefined == [kind |-> "undefined", val |-> ""]

\* ToBoolean of a string, null or undefined
Truthy(v) == v.kind = "string" /\ v.val # ""

-----------------------------------------------------------------------------
(* SetupStatusOptions *)

Policies ==
    [redirectToSetupIfNeeded : BOOLEAN,
     redirectToLoginIfRegistrationClosed : BOOLEAN,
     redirectToLoginIfInitialized : BOOLEAN]

\* options = {} : every flag takes its default
DefaultPolicy ==
    [redirectToSetupIfNeeded |-> FALSE,
     redirectToLoginIfRegistrationClosed |-> FALSE,
     redirectToLoginIfInitialized |-> FALSE]

\* the Register page without redirectToSetupIfNeeded
RegisterPolicy_NoSetupRedirect ==
    [redirectToSetupIfNeeded |-> FALSE,
     redirectToLoginIfRegistrationClosed |-> TRUE,
     redirectToLoginIfInitialized |-> FALSE]

\* RegisterPage: useSetupStatus({redirectToSetupIfNeeded: true,
\*                               redirectToLoginIfRegistrationClosed: true})
RegisterPolicy ==
    [DefaultPolicy EXCEPT !.redirectToSetupIfNeeded = TRUE,
                          !.redirectToLoginIfRegistrationClosed = TRUE]

\* SetupPage: useSetupStatus({redirectToLoginIfInitialized: true})
SetupPolicy ==
    [DefaultPolicy EXCEPT !.redirectToLoginIfInitialized = TRUE]

-----------------------------------------------------------------------------
(* SetupStatusState *)

\* useState starting with isLoading: false
InitialState_NotLoading ==
    [isLoading |-> FALSE,
     initialized |-> FALSE,
     needsSetup |-> FALSE,
     registrationEnabled |-> TRUE]

\* lines 30-35: the argument of useState
InitialState ==
    [isLoading |-> TRUE,
     initialized |-> FALSE,
     needsSetup |-> FALSE,
     registrationEnabled |-> TRUE]

-----------------------------------------------------------------------------
(* The response of GET /api/auth/setup-status *)

\* how `await apiRequest(...)` settles
FetchOutcomes == {"ok", "notok", "rejected"}

\* a field of the JSON value: true, false, or not there
FieldValues == {"true", "false", "missing"}

\* the values the backend sends for a field it sends
SentValues == {"true", "false"}

\* what `await response.json()` yields: a rejection (body is not JSON),
\* null, a JSON value that carries none of the fields (a number, a string,
\* an array, {}), or an object with the three fields
NoBody ==
    [kind |-> "none", needs_setup |-> "missing", initialized |-> "missing",
     registration_enabled |-> "missing"]

OtherBody(k) ==
    [kind |-> k, needs_setup |-> "missing", initialized |-> "missing",
     registration_enabled |-> "missing"]

ObjectBodies ==
    [kind : {"object"}, needs_setup : SentValues, initialized : SentValues,
     registration_enabled : SentValues]

Bodies == ObjectBodies \cup {OtherBody("invalid"), OtherBody("null"), OtherBody("scalar")}

\* response.json() rejects, or `data.needs_setup` throws a TypeError
BodyThrows(body) == body.kind \in {"invalid", "null"}

\* a field read as `data.<field> !== false`: an absent field counts as true
ToBoolean_MissingIsTrue(v) == v # "false"

\* Boolean(data.<field>): undefined (missing field, field of a scalar) is false
ToBoolean(v) == v = "true"

\* registration_enabled read as `data.registration_enabled ?? true`
ParseBody_RegistrationDefaultsOpen(body) ==
    [needsSetup |-> ToBoolean(body.needs_setup),
     initialized |-> ToBoolean(body.initialized),
     registrationEnabled |-> body.registration_enabled # "false"]

\* lines 51-53: the three flags read from the parsed body
ParseBody(body) ==
    [needsSetup |-> ToBoolean(body.needs_setup),
     initialized |-> ToBoolean(body.initialized),
     registrationEnabled |-> ToBoolean(body.registration_enabled)]

-----------------------------------------------------------------------------
(* checkSetupStatus, after the body has been parsed *)

\* rule 1 testing `!initialized` instead of `needsSetup`
Rule1_TestsInitialized(policy, s) == policy.redirectToSetupIfNeeded /\ ~s.initialized

Rule1(policy, s) == policy.redirectToSetupIfNeeded /\ s.needsSetup

Rule2(policy, s) ==
    policy.redirectToLoginIfRegistrationClosed /\ ~s.needsSetup /\ ~s.registrationEnabled

\* rule 3 without its `initialized` conjunct
Rule3_IgnoresInitialized(policy, s) ==
    policy.redirectToLoginIfInitialized /\ ~s.needsSetup

Rule3(policy, s) ==
    policy.redirectToLoginIfInitialized /\ s.initialized /\ ~s.needsSetup

\* rule 2 without its `!needsSetup` conjunct
EvaluatePolicy_Rule2IgnoresNeedsSetup(policy, s, isCancelled) ==
    IF Rule1(policy, s) THEN [navs |-> <<"/setup">>, publish |-> FALSE]
    ELSE IF policy.redirectToLoginIfRegistrationClosed /\ ~s.registrationEnabled
         THEN [navs |-> <<"/login">>, publish |-> FALSE]
    ELSE IF Rule3(policy, s) THEN [navs |-> <<"/login">>, publish |-> FALSE]
    ELSE [navs |-> <<>>, publish |-> ~isCancelled]

\* the redirects without their `return`: every matching rule assigns
\* window.location.href and the function runs on to the setState call
EvaluatePolicy_NoReturn(policy, s, isCancelled) ==
    [navs |-> (IF Rule1(policy, s) THEN <<"/setup">> ELSE <<>>)
              \o (IF Rule2(policy, s) THEN <<"/login">> ELSE <<>>)
              \o (IF Rule3(policy, s) THEN <<"/login">> ELSE <<>>),
     publish |-> ~isCancelled]

\* the redirects followed by the setState call instead of `return`
EvaluatePolicy_PublishesOnRedirect(policy, s, isCancelled) ==
    IF Rule1(policy, s) THEN [navs |-> <<"/setup">>, publish |-> ~isCancelled]
    ELSE IF Rule2(policy, s) THEN [navs |-> <<"/login">>, publish |-> ~isCancelled]
    ELSE IF Rule3(policy, s) THEN [navs |-> <<"/login">>, publish |-> ~isCancelled]
    ELSE [navs |-> <<>>, publish |-> ~isCancelled]

\* lines 55-77: the assignments to window.location.href, in order, and whether
\* setState is called with the parsed status.  Every redirect returns at once;
\* only the setState call is guarded by isCancelled.
EvaluatePolicy(policy, s, isCancelled) ==
    IF Rule1(policy, s) THEN [navs |-> <<"/setup">>, publish |-> FALSE]
    ELSE IF Rule2(policy, s) THEN [navs |-> <<"/login">>, publish |-> FALSE]
    ELSE IF Rule3(policy, s) THEN [navs |-> <<"/login">>, publish |-> FALSE]
    ELSE [navs |-> <<>>, publish |-> ~isCancelled]

\* lines 71-76: setState({isLoading: false, initialized, needsSetup, registrationEnabled})
PublishedState(s) ==
    [isLoading |-> FALSE,
     initialized |-> s.initialized,
     needsSetup |-> s.needsSetup,
     registrationEnabled |-> s.registrationEnabled]

\* the failure paths without their `if (!isCancelled)`
FailurePublishes_Unguarded(isCancelled) == TRUE

\* lines 44-46 and 79-81: whether the failure paths call
\* setState(prev => ({...prev, isLoading: false}))
FailurePublishes(isCancelled) == ~isCancelled

\* the failure paths publishing a fresh all-false status instead of `...prev`
StopLoading_DropsPrev(prev) ==
    [isLoading |-> FALSE, initialized |-> FALSE, needsSetup |-> FALSE,
     registrationEnabled |-> FALSE]

\* the failure paths leaving isLoading as it was
StopLoading_KeepsLoading(prev) == prev

\* lines 45 and 80: prev => ({...prev, isLoading: false})
StopLoading(prev) == [prev EXCEPT !.isLoading = FALSE]

\* window.location.href after the assignments in navs
HrefAfter(h, navs) == IF navs = <<>> THEN h ELSE navs[Len(navs)]

-----------------------------------------------------------------------------
(* Activations *)

IdleAct ==
    [pc |-> "idle", isCancelled |-> FALSE, policy |-> DefaultPolicy,
     navs |-> <<>>, pub |-> "none"]

\* line 38 and line 85: a fresh isCancelled, and checkSetupStatus() runs up to
\* its first await
NewAct(p) == [IdleAct EXCEPT !.pc = "fetching", !.policy = p]

\* An activation that has finished and whose cleanup has run is garbage: no
\* code can run in it or read it again.  The model keeps its record for one
\* more state and then forgets what it held.
InertAct == [IdleAct EXCEPT !.pc = "done", !.isCancelled = TRUE]

Collect(next) ==
    [a \in Acts |->
        IF act[a].pc = "done" /\ act[a].isCancelled THEN InertAct ELSE next[a]]

NoneSettled == [a |-> 0, resp |-> "none", body |-> NoBody]

\* the href of the page that mounts the hook, before any assignment
NoHref == "(page)"

ProbeInit ==
    /\ state = InitialState
    /\ mounted = FALSE
    /\ nact = 0
    /\ act = [a \in Acts |-> IdleAct]
    /\ settled = NoneSettled
    /\ href = NoHref

\* first render of a component using the hook: useState's initial value
\* (lines 30-35), then the effect runs (lines 37-85)
Mount(p) ==
    /\ ~mounted
    /\ nact < MaxAct
    /\ mounted' = TRUE
    /\ state' = InitialState
    /\ nact' = nact + 1
    /\ act' = Collect([act EXCEPT ![nact + 1] = NewAct(p)])
    /\ UNCHANGED <<settled, href, layoutVars, pageVars>>

\* the effect without its cleanup function: the previous run stays uncancelled
Rerun_NoCleanup(p) ==
    /\ mounted
    /\ nact < MaxAct
    /\ nact' = nact + 1
    /\ act' = Collect([act EXCEPT ![nact + 1] = NewAct(p)])
    /\ UNCHANGED <<state, mounted, settled, href, layoutVars, pageVars>>

\* the effect starting with a setState back to the loading state
Rerun_ResetsState(p) ==
    /\ mounted
    /\ nact < MaxAct
    /\ nact' = nact + 1
    /\ state' = InitialState
    /\ act' = Collect([act EXCEPT ![nact].isCancelled = TRUE, ![nact + 1] = NewAct(p)])
    /\ UNCHANGED <<mounted, settled, href, layoutVars, pageVars>>

\* a dependency of the effect changed, or the effect is re-run otherwise:
\* the cleanup of the previous run (lines 87-89), then the effect again
Rerun(p) ==
    /\ mounted
    /\ nact < MaxAct
    /\ nact' = nact + 1
    /\ act' = Collect([act EXCEPT ![nact].isCancelled = TRUE, ![nact + 1] = NewAct(p)])
    /\ UNCHANGED <<state, mounted, settled, href, layoutVars, pageVars>>

\* unmount: the cleanup of the last run (lines 87-89)
Unmount ==
    /\ mounted
    /\ mounted' = FALSE
    /\ act' = Collect([act EXCEPT ![nact].isCancelled = TRUE])
    /\ UNCHANGED <<state, nact, settled, href, layoutVars, pageVars>>

\* the failure paths: lines 43-48 (response not ok) and 78-82 (catch)
Fail(a, resp, body) ==
    /\ state' = IF FailurePublishes(act[a].isCancelled) THEN StopLoading(state) ELSE state
    /\ settled' = [a |-> a, resp |-> resp, body |-> body]
    /\ act' = Collect([act EXCEPT ![a].pc = "done",
                                  ![a].pub = IF FailurePublishes(act[a].isCancelled)
                                             THEN "stop" ELSE "none"])
    /\ UNCHANGED <<mounted, nact, href, layoutVars, pageVars>>

\* `await apiRequest(...)` settles (line 42) and the function runs on to its
\* return or to `await response.json()` (line 50)
FetchSettle(a, outcome) ==
    /\ act[a].pc = "fetching"
    /\ IF outcome = "ok"
       THEN /\ act' = Collect([act EXCEPT ![a].pc = "parsing"])
            /\ settled' = [a |-> a, resp |-> "ok", body |-> NoBody]
            /\ UNCHANGED <<state, mounted, nact, href, layoutVars, pageVars>>
       ELSE Fail(a, outcome, NoBody)

\* `await response.json()` settles (line 50) and the function runs to its end
JsonSettle(a, body) ==
    /\ act[a].pc = "parsing"
    /\ IF BodyThrows(body)
       THEN Fail(a, "ok", body)
       ELSE LET s == ParseBody(body)
                o == EvaluatePolicy(act[a].policy, s, act[a].isCancelled)
            IN  /\ state' = IF o.publish THEN PublishedState(s) ELSE state
                /\ href' = HrefAfter(href, o.navs)
                /\ settled' = [a |-> a, resp |-> "ok", body |-> body]
                /\ act' = Collect([act EXCEPT
                                   ![a].pc = "done",
                                   ![a].navs = o.navs,
                                   ![a].pub = IF o.publish THEN "status" ELSE "none"])
                /\ UNCHANGED <<mounted, nact, layoutVars, pageVars>>

-----------------------------------------------------------------------------
(* Route classification and the layout *)

\* the list without the Setup page
AUTH_PUBLIC_PATHS_NoSetup == <<"/login", "/register">>

AUTH_PUBLIC_PATHS == <<"/login", "/register", "/setup">>

\* Array.prototype.includes: strict equality with some element
Includes(arr, x) == \E i \in DOMAIN arr : arr[i] = x

\* the `!pathname` test inverted: a missing path counts as an auth page
isAuthPublicPath_MissingIsPublic(p) ==
    IF ~Truthy(p) THEN TRUE ELSE Includes(AUTH_PUBLIC_PATHS, p.val)

\* auth-pages.ts lines 3-8; pathname is a string or null
isAuthPublicPath(p) ==
    IF ~Truthy(p) THEN FALSE ELSE Includes(AUTH_PUBLIC_PATHS, p.val)

\* token passed on as it is, without `|| undefined`
LayoutContent_PassesTokenOn(p, t) ==
    IF isAuthPublicPath(p)
    THEN [children |-> TRUE, provider |-> FALSE, sidebar |-> FALSE,
          ctxToken |-> Undefined]
    ELSE [children |-> TRUE, provider |-> TRUE, sidebar |-> TRUE,
          ctxToken |-> t]

\* LayoutContent: the bare children for an auth page, otherwise the children
\* inside <AppProvider token={token || undefined}> and the sidebar shell
LayoutContent(p, t) ==
    IF isAuthPublicPath(p)
    THEN [children |-> TRUE, provider |-> FALSE, sidebar |-> FALSE,
          ctxToken |-> Undefined]
    ELSE [children |-> TRUE, provider |-> TRUE, sidebar |-> TRUE,
          ctxToken |-> IF Truthy(t) THEN t ELSE Undefined]

\* paths the router may report: the three auth pages, near misses of them,
\* other pages, the empty string and null
PathInputs ==
    {Str(x) : x \in {"/login", "/register", "/setup",
                     "/login/", "/register/", "/setup/",
                     "/Login", "/LOGIN", "/Register", "/Setup", "/SETUP",
                     "/log", "/regis", "/set", "login", "register", "setup",
                     "/login2", "/setup/admin", "/register/new", "/auth/login",
                     "/login?next=/", "/setup#top", " /login", "/login ",
                     "/", "/chat", "/settings", ""}} \cup {Null}

\* session tokens: two tokens, the empty string, none
TokenInputs == {Str("tok-a"), Str("tok-b"), Str(""), Null}

-----------------------------------------------------------------------------
(* The forms of RegisterPage and SetupPage: their useState values *)

\* a text typed into an input, as a sequence of n characters c
Text(n, c) == [i \in 1..n |-> c]

\* the shortest password both handlers accept
MinPasswordLength == 6

\* t(key) of useI18n(): the message registered for the key
T(key) == key

\* the useState initial values of a page's form; pc, ok, said, timers,
\* submits and outcome are the position of the submit handler and its
\* history: ok is response.ok and said is data.success of the last response
FreshForm(page) ==
    [page |-> page, username |-> <<>>, password |-> <<>>,
     confirmPassword |-> <<>>, isLoading |-> FALSE, error |-> "",
     success |-> "", pc |-> "idle", ok |-> FALSE, said |-> "none",
     timers |-> 0,
     submits |-> 0, outcome |-> "none"]

NoForm == FreshForm("(none)")

\* no form page is open and no document load is recorded
PageIdle ==
    /\ form = NoForm
    /\ chain = <<>>

LayoutIdle ==
    /\ pathname = Null
    /\ token = Null
    /\ layout = LayoutContent(Null, Null)

LayoutInit ==
    /\ ProbeInit
    /\ PageIdle
    /\ pathname \in PathInputs
    /\ token \in TokenInputs
    /\ layout = LayoutContent(pathname, token)

\* usePathname() reports a new path and LayoutContent renders again
Navigate(p) ==
    /\ p # pathname
    /\ pathname' = p
    /\ layout' = LayoutContent(p, token)
    /\ UNCHANGED <<token, probeVars, pageVars>>

\* useAuth() reports a new token and LayoutContent renders again
SetToken(t) ==
    /\ t # token
    /\ token' = t
    /\ layout' = LayoutContent(pathname, t)
    /\ UNCHANGED <<pathname, probeVars, pageVars>>

-----------------------------------------------------------------------------
(* Specifications *)

Init == ProbeInit /\ LayoutIdle /\ PageIdle

Next ==
    \/ \E p \in Policies : Mount(p)
    \/ \E p \in Policies : Rerun(p)
    \/ Unmount
    \/ \E a \in Acts, outcome \in FetchOutcomes : FetchSettle(a, outcome)
    \/ \E a \in Acts, body \in Bodies : JsonSettle(a, body)

\* the hook in one component instance
Spec == Init /\ [][Next]_vars

LayoutNext ==
    \/ \E p \in PathInputs : Navigate(p)
    \/ \E t \in TokenInputs : SetToken(t)

\* a component that always calls useSetupStatus() with the default options
DefaultNext ==
    \/ Mount(DefaultPolicy)
    \/ Rerun(DefaultPolicy)
    \/ Unmount
    \/ \E a \in Acts, outcome \in FetchOutcomes : FetchSettle(a, outcome)
    \/ \E a \in Acts, body \in Bodies : JsonSettle(a, body)

\* every request settles at some time, and so does the reading of every body
Fairness ==
    \A a \in Acts :
        /\ WF_vars(\E outcome \in FetchOutcomes : FetchSettle(a, outcome))
        /\ WF_vars(\E body \in Bodies : JsonSettle(a, body))

DefaultFairSpec == Init /\ [][DefaultNext]_vars /\ Fairness

\* objects in which any of the three fields may be absent
PartialBodies ==
    [kind : {"object"}, needs_setup : FieldValues, initialized : FieldValues,
     registration_enabled : FieldValues]

\* one mount with one activation, whose response may lack fields
ParseNext ==
    \/ \E p \in Policies : nact = 0 /\ Mount(p)
    \/ Unmount
    \/ \E outcome \in FetchOutcomes : FetchSettle(1, outcome)
    \/ \E body \in PartialBodies \cup Bodies : JsonSettle(1, body)

ParseSpec == Init /\ [][ParseNext]_vars

\* RegisterPage and SetupPage return null while the hook reports isLoading
\* (register.tsx lines 91-93 and 337-339) and their form otherwise
RendersForm(st) == ~st.isLoading

PagePolicies == {RegisterPolicy, SetupPolicy}

\* the flags of the page that is mounted
CurrentPolicy == act[nact].policy

\* The Register or the Setup page: the flags are literals, so every run of
\* the effect in one mount has the same ones.  React may run the effect of a
\* mounted component again at any time (cleanup, then the effect).
PageNext ==
    \/ \E p \in PagePolicies : Mount(p)
    \/ mounted /\ Rerun(CurrentPolicy)
    \/ Unmount
    \/ \E a \in Acts, outcome \in FetchOutcomes : FetchSettle(a, outcome)
    \/ \E a \in Acts, body \in Bodies : JsonSettle(a, body)

PageSpec == Init /\ [][PageNext]_vars

\* LayoutContent under every path and token
LayoutSpec == LayoutInit /\ [][LayoutNext]_vars

-----------------------------------------------------------------------------
(* Vocabulary of the properties *)

\* activation a has run to its end and its settlement is the latest one
Finished(a) == settled.a = a /\ act[a].pc = "done"

\* the latest settlement is a 2xx response whose body was read without an
\* exception
Succeeded == settled.resp = "ok" /\ settled.body.kind \in {"object", "scalar"}

\* the latest settlement is a failure: non-2xx, rejected fetch, or an exception
\* while reading the body
Failed == settled.resp \in {"notok", "rejected"} \/ BodyThrows(settled.body)

\* the status parsed from the latest settlement
Parsed == ParseBody(settled.body)

Flags(st) ==
    [initialized |-> st.initialized, needsSetup |-> st.needsSetup,
     registrationEnabled |-> st.registrationEnabled]

\* activation a takes a step of checkSetupStatus
Steps(a) == act[a].pc \in {"fetching", "parsing"} /\ act'[a].pc # act[a].pc

-----------------------------------------------------------------------------
(* C1 *)

\* C1: after a successful, parsed response an uncancelled activation has
\* produced exactly one outcome, chosen in the fixed order: (1)
\* redirectToSetupIfNeeded and needsSetup: navigation to /setup; (2) else
\* redirectToLoginIfRegistrationClosed, not needsSetup, not
\* registrationEnabled: navigation to /login; (3) else
\* redirectToLoginIfInitialized, initialized, not needsSetup: navigation to
\* /login; (4) else the parsed status is published with isLoading = false.
C1_OrderedOutcome ==
    \A a \in Acts :
        (Finished(a) /\ ~act[a].isCancelled /\ Succeeded) =>
            LET p == act[a].policy
                s == Parsed
                nav(t) == /\ act[a].navs = <<t>>
                          /\ act[a].pub = "none"
                          /\ href = t
            IN  IF p.redirectToSetupIfNeeded /\ s.needsSetup
                THEN nav("/setup")
                ELSE IF /\ p.redirectToLoginIfRegistrationClosed
                        /\ ~s.needsSetup /\ ~s.registrationEnabled
                THEN nav("/login")
                ELSE IF p.redirectToLoginIfInitialized /\ s.initialized /\ ~s.needsSetup
                THEN nav("/login")
                ELSE /\ act[a].navs = <<>>
                     /\ act[a].pub = "status"
                     /\ state = [isLoading |-> FALSE,
                                 initialized |-> s.initialized,
                                 needsSetup |-> s.needsSetup,
                                 registrationEnabled |-> s.registrationEnabled]

\* the Register page's policy meets {needsSetup: true, initialized: false,
\* registrationEnabled: true} and the only navigation is to /setup
C1_Witness ==
    \E a \in Acts :
        /\ Finished(a) /\ ~act[a].isCancelled
        /\ act[a].policy = RegisterPolicy
        /\ settled.body = [kind |-> "object", needs_setup |-> "true",
                           initialized |-> "false", registration_enabled |-> "true"]
        /\ act[a].navs = <<"/setup">>
        /\ href = "/setup"

-----------------------------------------------------------------------------
(* C2 *)

\* C2: an activation whose cleanup has run before its request settled issues
\* no navigation when the request settles later.
C2_NoNavigationAfterCancel ==
    [][\A a \in Acts :
          (act[a].isCancelled /\ Steps(a)) => (act'[a].navs = <<>> /\ href' = href)]_vars

-----------------------------------------------------------------------------
(* C3 *)

\* C3: a step of an activation whose cleanup has run - non-2xx response,
\* exception, or successful response on the publish path - leaves the
\* hook's state as it is.
C3_CancelledNeverMutates ==
    [][\A a \in Acts : (act[a].isCancelled /\ Steps(a)) => state' = state]_vars

\* the second activation is current and still waiting, the first one was
\* cancelled and then got a failing response: the state is untouched
C3_Witness ==
    /\ nact = 2 /\ mounted
    /\ Finished(1) /\ act[1].isCancelled /\ Failed
    /\ act[1].pub = "none"
    /\ act[2].pc = "fetching"
    /\ state = InitialState

-----------------------------------------------------------------------------
(* C4 *)

\* C4: when the request of an uncancelled activation fails (non-2xx, rejected
\* fetch, exception while reading the body), isLoading becomes false, the
\* three flags keep the values they had before (the defaults on the first
\* activation), and nothing is assigned to window.location.href.
C4_FailOpen ==
    [][\A a \in Acts :
          (~act[a].isCancelled /\ Steps(a) /\ act'[a].pc = "done"
             /\ settled'.a = a /\ Failed') =>
                /\ state'.isLoading = FALSE
                /\ Flags(state') = Flags(state)
                /\ (a = 1 => Flags(state') = Flags(InitialState))
                /\ href' = href
                /\ act'[a].navs = <<>>]_vars

\* the Register page's first request is rejected: loading has stopped, the
\* flags are the defaults, no navigation
C4_Witness ==
    /\ Finished(1) /\ ~act[1].isCancelled
    /\ act[1].policy = RegisterPolicy
    /\ settled.resp = "rejected"
    /\ state = [InitialState EXCEPT !.isLoading = FALSE]
    /\ href = NoHref

-----------------------------------------------------------------------------
(* C5 *)

\* C5: isAuthPublicPath yields a boolean for every path, and true exactly for
\* the strings "/login", "/register" and "/setup"; null, the empty string and
\* every other string are classified protected.
C5_ExactClassification ==
    /\ isAuthPublicPath(pathname) \in BOOLEAN
    /\ isAuthPublicPath(pathname) <=>
          (pathname \in {Str("/login"), Str("/register"), Str("/setup")})
    /\ layout.sidebar <=>
          (pathname \notin {Str("/login"), Str("/register"), Str("/setup")})

\* the router reports no path and the page is rendered as a protected one
C5_Witness == pathname = Null /\ layout.sidebar /\ layout.provider

-----------------------------------------------------------------------------
(* C6 *)

\* C6: with the policies the pages pass, after every successful response:
\* /register with needsSetup redirects to /setup; /register with
\* registrationEnabled false redirects to /login; /setup with initialized
\* true redirects to /login; a page passing no flag never redirects.
C6_PageRedirects ==
    \A a \in Acts :
        (Finished(a) /\ Succeeded) =>
            /\ (act[a].policy = RegisterPolicy /\ Parsed.needsSetup)
                  => act[a].navs = <<"/setup">>
            /\ (act[a].policy = RegisterPolicy /\ ~Parsed.registrationEnabled)
                  => act[a].navs = <<"/login">>
            /\ (act[a].policy = SetupPolicy /\ Parsed.initialized)
                  => act[a].navs = <<"/login">>
            /\ (act[a].policy = DefaultPolicy) => act[a].navs = <<>>

\* C6, amended: the two redirects to /login happen when needsSetup is false;
\* with needsSetup true /register redirects to /setup whatever
\* registrationEnabled is, and /setup does not redirect.
C6_PageRedirectsAmended ==
    \A a \in Acts :
        (Finished(a) /\ Succeeded) =>
            /\ (act[a].policy = RegisterPolicy /\ Parsed.needsSetup)
                  => act[a].navs = <<"/setup">>
            /\ (act[a].policy = RegisterPolicy /\ ~Parsed.registrationEnabled
                  /\ ~Parsed.needsSetup)
                  => act[a].navs = <<"/login">>
            /\ (act[a].policy = SetupPolicy /\ Parsed.initialized /\ ~Parsed.needsSetup)
                  => act[a].navs = <<"/login">>
            /\ (act[a].policy = SetupPolicy /\ Parsed.needsSetup)
                  => act[a].navs = <<>>
            /\ (act[a].policy = DefaultPolicy) => act[a].navs = <<>>

\* /register, registration closed and no admin yet: the redirect goes to /setup
C6_Witness ==
    \E a \in Acts :
        /\ Finished(a) /\ Succeeded
        /\ act[a].policy = RegisterPolicy
        /\ Parsed.needsSetup /\ ~Parsed.registrationEnabled
        /\ act[a].navs = <<"/setup">>

-----------------------------------------------------------------------------
(* C7 *)

\* C7: an activation assigns window.location.href at most once, and once it
\* has done so it is at its end: it calls setState no more and navigates no
\* more.
C7_NavigationTerminal ==
    [][\A a \in Acts :
          /\ Len(act'[a].navs) <= 1
          /\ act'[a].navs # <<>> => (act'[a].pub = "none" /\ act'[a].pc = "done")
          /\ act[a].navs # <<>> =>
                (act'[a].navs \in {act[a].navs, <<>>} /\ ~Steps(a))]_vars

\* an activation has redirected to /login and published nothing
C7_Witness ==
    \E a \in Acts :
        /\ Finished(a)
        /\ act[a].navs = <<"/login">>
        /\ act[a].pub = "none"
        /\ state.isLoading

-----------------------------------------------------------------------------
(* C8 *)

\* C8: with the default options, after any response an activation that is
\* not deactivated has published isLoading = false together with the flags
\* parsed from the response.
C8_AlwaysPublishesParsed ==
    \A a \in Acts :
        (Finished(a) /\ ~act[a].isCancelled /\ act[a].policy = DefaultPolicy) =>
            /\ Succeeded
            /\ state = [isLoading |-> FALSE,
                        initialized |-> Parsed.initialized,
                        needsSetup |-> Parsed.needsSetup,
                        registrationEnabled |-> Parsed.registrationEnabled]

\* C8, amended: with the default options nothing is ever assigned to
\* window.location.href; an activation that is not deactivated eventually
\* reaches its end with isLoading = false; the flags it publishes are the
\* parsed ones when the response is a 2xx one whose body could be read, and
\* on a failure it only clears isLoading.
C8_DefaultPolicyPublishes ==
    /\ [](href = NoHref /\ \A a \in Acts : act[a].navs = <<>>)
    /\ [](\A a \in Acts :
            (Finished(a) /\ ~act[a].isCancelled) =>
                IF Succeeded
                THEN act[a].pub = "status"
                     /\ state = [isLoading |-> FALSE,
                                 initialized |-> Parsed.initialized,
                                 needsSetup |-> Parsed.needsSetup,
                                 registrationEnabled |-> Parsed.registrationEnabled]
                ELSE act[a].pub = "stop" /\ state.isLoading = FALSE)
    /\ \A a \in Acts :
          (act[a].pc = "fetching") ~>
              (act[a].isCancelled
                 \/ (act[a].pc = "done" /\ act[a].pub # "none" /\ state.isLoading = FALSE))

\* the default options met a response with needs_setup = true: no
\* navigation, the status is published
C8_Witness ==
    \E a \in Acts :
        /\ Finished(a) /\ ~act[a].isCancelled /\ Succeeded
        /\ act[a].policy = DefaultPolicy
        /\ Parsed.needsSetup
        /\ state.needsSetup /\ ~state.isLoading
        /\ href = NoHref

-----------------------------------------------------------------------------
(* C9 *)

PublicPaths == {Str("/login"), Str("/register"), Str("/setup")}

\* C9: LayoutContent renders the children alone, without Sidebar and
\* AppProvider, exactly for the public auth paths; for every other path,
\* null included, it renders them inside AppProvider and the sidebar shell,
\* the context token being the session token when there is one and
\* undefined when there is none.
C9_ShellIffProtected ==
    /\ layout.children
    /\ (~layout.sidebar /\ ~layout.provider) <=> (pathname \in PublicPaths)
    /\ (pathname \notin PublicPaths) =>
          /\ layout.sidebar /\ layout.provider
          /\ (token.kind = "string" /\ token.val # "") => layout.ctxToken = token
          /\ (token = Null) => layout.ctxToken = Undefined

\* a protected page visited without a session: shell and provider, no token
C9_Witness ==
    /\ pathname = Str("/chat")
    /\ token = Null
    /\ layout.sidebar /\ layout.provider
    /\ layout.ctxToken = Undefined

-----------------------------------------------------------------------------
(* C10 *)

\* a successful response with initialized = false and needsSetup = false
Inconsistent == Succeeded /\ ~Parsed.initialized /\ ~Parsed.needsSetup

\* C10: after an inconsistent successful response the activation has not
\* navigated and has stopped loading, for every policy and either value of
\* registrationEnabled.
C10_InconsistentNoRedirect ==
    \A a \in Acts :
        (Finished(a) /\ ~act[a].isCancelled /\ Inconsistent) =>
            (act[a].navs = <<>> /\ state.isLoading = FALSE)

\* C10, amended: after an inconsistent successful response the activation has
\* not navigated and has stopped loading, except when
\* redirectToLoginIfRegistrationClosed is set and registrationEnabled is
\* false: then it has navigated to /login and published nothing.
C10_InconsistentAmended ==
    \A a \in Acts :
        (Finished(a) /\ ~act[a].isCancelled /\ Inconsistent) =>
            IF act[a].policy.redirectToLoginIfRegistrationClosed
                  /\ ~Parsed.registrationEnabled
            THEN act[a].navs = <<"/login">> /\ act[a].pub = "none"
            ELSE /\ act[a].navs = <<>>
                 /\ state.isLoading = FALSE
                 /\ Flags(state) = Parsed

\* the Setup page gets initialized = false, needsSetup = false: no redirect,
\* loading has stopped
C10_Witness ==
    \E a \in Acts :
        /\ Finished(a) /\ ~act[a].isCancelled /\ Inconsistent
        /\ act[a].policy = SetupPolicy
        /\ act[a].navs = <<>>
        /\ state.isLoading = FALSE
        /\ href = NoHref

-----------------------------------------------------------------------------
(* C11 *)

\* the latest settlement is a 2xx response with a malformed body: not JSON,
\* JSON null, or a JSON value without the three fields
Malformed == settled.resp = "ok" /\ settled.body.kind \in {"invalid", "null", "scalar"}

\* C11: after a 2xx response with a malformed body an uncancelled activation
\* has cleared isLoading, the three flags are at their defaults (false, false,
\* true) and it has not navigated, for every policy.
C11_MalformedIsUnknown ==
    \A a \in Acts :
        (Finished(a) /\ ~act[a].isCancelled /\ Malformed) =>
            /\ state.isLoading = FALSE
            /\ Flags(state) = [initialized |-> FALSE, needsSetup |-> FALSE,
                               registrationEnabled |-> TRUE]
            /\ act[a].navs = <<>>
            /\ href = NoHref

\* C11, amended: a body that is not JSON or is JSON null takes the failure
\* path: isLoading is cleared by setState(prev => ...), which keeps the flags
\* (the defaults on the first activation), and nothing navigates.  A JSON
\* value without the three fields is read as false / false / false: with
\* redirectToLoginIfRegistrationClosed the activation navigates to /login,
\* otherwise it publishes all three flags false.
C11_MalformedAmended ==
    \A a \in Acts :
        (Finished(a) /\ ~act[a].isCancelled /\ Malformed) =>
            IF settled.body.kind \in {"invalid", "null"}
            THEN /\ state.isLoading = FALSE
                 /\ act[a].pub = "stop"
                 /\ act[a].navs = <<>>
                 /\ (a = 1 => Flags(state) = [initialized |-> FALSE,
                                              needsSetup |-> FALSE,
                                              registrationEnabled |-> TRUE])
            ELSE IF act[a].policy.redirectToLoginIfRegistrationClosed
                 THEN act[a].navs = <<"/login">> /\ act[a].pub = "none"
                 ELSE /\ act[a].navs = <<>>
                      /\ state = [isLoading |-> FALSE, initialized |-> FALSE,
                                  needsSetup |-> FALSE,
                                  registrationEnabled |-> FALSE]

\* the Register page gets a 2xx body without the fields and redirects to
\* /login
C11_Witness ==
    /\ Finished(1) /\ ~act[1].isCancelled
    /\ settled.resp = "ok" /\ settled.body.kind = "scalar"
    /\ act[1].policy = RegisterPolicy
    /\ act[1].navs = <<"/login">>
    /\ href = "/login"
    /\ state.isLoading

-----------------------------------------------------------------------------
(* C12 *)

\* C12: a mount starts with {isLoading: true, initialized: false,
\* needsSetup: false, registrationEnabled: true}, and the state leaves that
\* value only when an uncancelled activation runs to its end; it has that
\* value while the first request of the first mount is not settled.
C12_InitialUntilSettled ==
    [][LET initial == [isLoading |-> TRUE, initialized |-> FALSE,
                       needsSetup |-> FALSE, registrationEnabled |-> TRUE]
       IN  /\ (~mounted /\ mounted') => state' = initial
           /\ (state = initial /\ state' # initial) =>
                 \E a \in Acts : /\ Steps(a) /\ ~act[a].isCancelled
                                 /\ act'[a].pc = "done"
           /\ (nact' = 1 /\ act'[1].pc \in {"fetching", "parsing"})
                 => state' = initial]_vars

\* mounted a second time, after the first mount had published: the state is
\* the initial one again while the new request is pending
C12_Witness ==
    /\ mounted /\ nact = 2
    /\ act[1].pc = "done" /\ act[1].isCancelled
    /\ settled.a = 1 /\ Succeeded
    /\ act[2].pc = "fetching"
    /\ state = InitialState

-----------------------------------------------------------------------------
(* C14 *)

\* activation a has a request that is not settled
InFlight(a) == act[a].pc \in {"fetching", "parsing"}

\* C14: an activation issues its request when it starts and never again: it
\* enters "fetching" once, from idle, as the newest activation, and only
\* moves on from there; when it starts every earlier activation has been
\* cancelled, so at most one uncancelled activation has a request in flight.
C14_OneRequestPerActivation ==
    [][/\ \A a \in Acts :
            /\ (act'[a].pc = "fetching" /\ act[a].pc # "fetching") =>
                  /\ act[a].pc = "idle"
                  /\ a = nact' /\ nact' = nact + 1
                  /\ \A b \in Acts : b < a => act'[b].isCancelled
            /\ (act[a].pc = "parsing") => act'[a].pc \in {"parsing", "done"}
            /\ (act[a].pc = "done") => act'[a].pc = "done"
       /\ Cardinality({a \in Acts : InFlight(a)' /\ ~act'[a].isCancelled}) <= 1]_vars

\* two requests in flight, the older one cancelled
C14_Witness ==
    /\ mounted /\ nact = 2
    /\ act[1].pc = "fetching" /\ act[1].isCancelled
    /\ act[2].pc = "fetching" /\ ~act[2].isCancelled

-----------------------------------------------------------------------------
(* C20 *)

\* C20: within one mounted component isLoading never goes from false back to
\* true - only the first render of a new mount sets it - and a re-run of the
\* effect leaves the state as it is.
C20_LoadingMonotone ==
    [][/\ (~state.isLoading /\ state'.isLoading) => (~mounted /\ mounted')
       /\ (mounted /\ mounted' /\ nact' # nact) => state' = state]_vars

\* the effect has been re-run with other flags after the status was
\* published: the new request is pending and isLoading is still false
C20_Witness ==
    /\ mounted /\ nact = 2
    /\ act[1].policy = DefaultPolicy /\ act[1].pub = "status" /\ act[1].isCancelled
    /\ act[2].policy = RegisterPolicy /\ act[2].pc = "fetching"
    /\ ~state.isLoading

-----------------------------------------------------------------------------
(* C15 *)

\* the body with every absent field set to false
Filled(body) ==
    [kind |-> body.kind,
     needs_setup |-> IF body.needs_setup = "missing" THEN "false" ELSE body.needs_setup,
     initialized |-> IF body.initialized = "missing" THEN "false" ELSE body.initialized,
     registration_enabled |-> IF body.registration_enabled = "missing"
                              THEN "false" ELSE body.registration_enabled]

\* C15: a successful response in which any of needs_setup, initialized,
\* registration_enabled is absent is handled exactly like the response with
\* those fields set to false: the same navigation, the same published status.
C15_MissingReadAsFalse ==
    \A a \in Acts :
        (Finished(a) /\ ~act[a].isCancelled /\ settled.resp = "ok"
            /\ settled.body.kind = "object") =>
            LET f == Filled(settled.body)
                s == [needsSetup |-> f.needs_setup = "true",
                      initialized |-> f.initialized = "true",
                      registrationEnabled |-> f.registration_enabled = "true"]
                o == EvaluatePolicy(act[a].policy, s, FALSE)
            IN  /\ act[a].navs = o.navs
                /\ o.publish =>
                      /\ act[a].pub = "status"
                      /\ state = [isLoading |-> FALSE,
                                  initialized |-> s.initialized,
                                  needsSetup |-> s.needsSetup,
                                  registrationEnabled |-> s.registrationEnabled]
                /\ ~o.publish => (act[a].pub = "none" /\ state.isLoading)

\* the Register page gets {needs_setup: false, initialized: true} without
\* registration_enabled and redirects to /login, as for a closed registration
C15_Witness ==
    /\ Finished(1) /\ ~act[1].isCancelled
    /\ act[1].policy = RegisterPolicy
    /\ settled.body = [kind |-> "object", needs_setup |-> "false",
                       initialized |-> "true", registration_enabled |-> "missing"]
    /\ act[1].navs = <<"/login">>

-----------------------------------------------------------------------------
(* C13 *)

-----------------------------------------------------------------------------
(* C18 *)

\* what a response must say for the page with flags p to show its form
Admits(p, s) ==
    IF p = RegisterPolicy
    THEN ~s.needsSetup /\ s.registrationEnabled
    ELSE ~s.initialized \/ s.needsSetup

\* C18: the step that clears isLoading on the Register or the Setup page is
\* either a failed request or a response that has needsSetup = false and
\* registrationEnabled = true (Register), initialized = false or needsSetup =
\* true (Setup); and whenever the page shows its form, the flags it holds
\* satisfy the same condition.
C18_FormGatedByProbe ==
    [][/\ \A a \in Acts :
            (Steps(a) /\ state.isLoading /\ ~state'.isLoading) =>
                /\ settled'.a = a
                /\ Failed' \/ (Succeeded' /\ Admits(act[a].policy, Parsed'))
       /\ (mounted' /\ RendersForm(state')) =>
             Admits(CurrentPolicy', [initialized |-> state'.initialized,
                                     needsSetup |-> state'.needsSetup,
                                     registrationEnabled |-> state'.registrationEnabled])]_vars

\* the Setup page shows its form after a response with needsSetup = true
C18_Witness ==
    /\ mounted /\ CurrentPolicy = SetupPolicy
    /\ Finished(nact) /\ Succeeded /\ Parsed.needsSetup /\ Parsed.initialized
    /\ RendersForm(state)
    /\ state.needsSetup

-----------------------------------------------------------------------------
(* RegisterPage.handleSubmit and SetupPage.onSubmit *)

\* bound on the submissions of one form
MaxSubmit == 2

FormPages == {"/register", "/setup"}

\* what the inputs can hold
Usernames == {Text(0, "u"), Text(1, "u")}
Passwords ==
    {Text(0, "a"), Text(MinPasswordLength - 1, "a"),
     Text(MinPasswordLength, "a"), Text(MinPasswordLength, "b")}
FieldInputs ==
    [username |-> Usernames, password |-> Passwords,
     confirmPassword |-> Passwords]

\* the body of the response to a submission: await response.json() throws,
\* or yields null, a scalar, or an object with or without success and message
FormBody(k, s, m) == [kind |-> k, success |-> s, message |-> m]
FormBodies ==
    {FormBody("object", s, m) :
        s \in {"true", "false", "missing"}, m \in {"taken", "", "missing"}}
    \cup {FormBody(k, "missing", "missing") : k \in {"invalid", "null", "scalar"}}

\* json() rejects, or data is null and reading data.success or data.message
\* throws: control goes to the catch block
DataThrows(data) == data.kind \in {"invalid", "null"}

\* response.ok && data.success, without the test of response.ok
Accepted_IgnoresStatus(ok, data) == data.success = "true"

\* response.ok && data.success
Accepted(ok, data) == ok /\ data.success = "true"

\* data.message || t(key)
ErrorText(data, key) ==
    IF data.message \notin {"", "missing"} THEN data.message ELSE T(key)

\* data.success as the handler read it
Said(data) ==
    IF DataThrows(data) THEN "threw"
    ELSE IF data.kind = "object" THEN data.success ELSE "missing"

\* handleSubmit without the test of the password's length
handleSubmit_NoLengthCheck(f) ==
    LET g == [f EXCEPT !.error = "", !.success = "", !.ok = FALSE,
                       !.said = "none"]
    IN  IF f.password # f.confirmPassword
        THEN [g EXCEPT !.error = T("register.alerts.password_mismatch"),
                       !.outcome = "invalid"]
        ELSE [g EXCEPT !.isLoading = TRUE, !.pc = "request",
                       !.outcome = "sent"]

\* handleSubmit up to its first await
handleSubmit(f) ==
    LET g == [f EXCEPT !.error = "", !.success = "", !.ok = FALSE,
                       !.said = "none"]
    IN  IF f.password # f.confirmPassword
        THEN [g EXCEPT !.error = T("register.alerts.password_mismatch"),
                       !.outcome = "invalid"]
        ELSE IF Len(f.password) < MinPasswordLength
        THEN [g EXCEPT !.error = T("register.alerts.password_too_short"),
                       !.outcome = "invalid"]
        ELSE [g EXCEPT !.isLoading = TRUE, !.pc = "request",
                       !.outcome = "sent"]

\* onSubmit up to its first await
onSubmit(f) ==
    LET g == [f EXCEPT !.error = "", !.ok = FALSE, !.said = "none"]
    IN  IF f.username = <<>> \/ f.password = <<>>
        THEN [g EXCEPT !.error = T("setup.errors.required"),
                       !.outcome = "invalid"]
        ELSE IF Len(f.password) < MinPasswordLength
        THEN [g EXCEPT !.error = T("setup.errors.passwordTooShort"),
                       !.outcome = "invalid"]
        ELSE IF f.password # f.confirmPassword
        THEN [g EXCEPT !.error = T("setup.errors.passwordMismatch"),
                       !.outcome = "invalid"]
        ELSE [g EXCEPT !.isLoading = TRUE, !.pc = "request",
                       !.outcome = "sent"]

\* the submit button's disabled attribute
SubmitDisabled(f) ==
    IF f.page = "/register"
    THEN f.username = <<>> \/ f.password = <<>> \/ f.confirmPassword = <<>>
         \/ f.isLoading
    ELSE f.isLoading

\* the catch block without the finally block
Caught_NoFinally(f) ==
    [f EXCEPT !.error = IF f.page = "/register"
                        THEN T("register.alerts.failed_retry")
                        ELSE T("setup.errors.failed"),
              !.pc = "idle", !.outcome = "exception"]

\* the catch block followed by the finally block
Caught(f) ==
    [f EXCEPT !.error = IF f.page = "/register"
                        THEN T("register.alerts.failed_retry")
                        ELSE T("setup.errors.failed"),
              !.isLoading = FALSE, !.pc = "idle", !.outcome = "exception"]

\* the else branch of the test of the response, followed by the finally block
Refused(f, data) ==
    [f EXCEPT !.error = IF f.page = "/register"
                        THEN ErrorText(data, "register.alerts.failed")
                        ELSE ErrorText(data, "setup.errors.failed"),
              !.isLoading = FALSE, !.pc = "idle", !.outcome = "rejected"]

\* the page renders its form: the probe has published and the page is open
FormShown ==
    /\ form.page \in FormPages
    /\ pathname = Str(form.page)
    /\ mounted
    /\ RendersForm(state)

formFrame == <<state, mounted, nact, act, settled, layoutVars, chain>>

\* the user changes one input
Edit(field, v) ==
    /\ FormShown
    /\ form[field] # v
    /\ form' = IF form.page = "/register"
               THEN [form EXCEPT ![field] = v, !.error = "", !.success = ""]
               ELSE [form EXCEPT ![field] = v]
    /\ UNCHANGED <<href, formFrame>>

\* the user submits the form
Submit ==
    /\ FormShown
    /\ ~SubmitDisabled(form)
    /\ form.submits < MaxSubmit
    /\ form' = [(IF form.page = "/register" THEN handleSubmit(form)
                 ELSE onSubmit(form))
                EXCEPT !.submits = form.submits + 1]
    /\ UNCHANGED <<href, formFrame>>

\* await apiRequest(...) settles
RequestSettle(outcome) ==
    /\ form.pc = "request"
    /\ form' = IF outcome = "rejected"
               THEN Caught([form EXCEPT !.said = "threw"])
               ELSE [form EXCEPT !.pc = "json", !.ok = (outcome = "ok")]
    /\ UNCHANGED <<href, formFrame>>

\* await response.json() settles and the handler runs to its end
BodySettle(data) ==
    /\ form.pc = "json"
    /\ LET f == [form EXCEPT !.said = Said(data)]
       IN  IF DataThrows(data)
           THEN form' = Caught(f) /\ UNCHANGED href
           ELSE IF ~Accepted(f.ok, data)
           THEN form' = Refused(f, data) /\ UNCHANGED href
           ELSE IF f.page = "/register"
           THEN /\ form' = [f EXCEPT !.success = T("register.alerts.success"),
                                     !.timers = f.timers + 1,
                                     !.isLoading = FALSE, !.pc = "idle",
                                     !.outcome = "success"]
                /\ UNCHANGED href
           ELSE /\ form' = [f EXCEPT !.isLoading = FALSE, !.pc = "idle",
                                     !.outcome = "success"]
                /\ href' = "/login"
    /\ UNCHANGED formFrame

\* a callback registered by setTimeout(..., 2000) runs
TimerFire ==
    /\ form.timers > 0
    /\ form' = [form EXCEPT !.timers = form.timers - 1]
    /\ href' = "/login"
    /\ UNCHANGED formFrame

-----------------------------------------------------------------------------
(* The browser acting on window.location.href *)

\* bound on the documents loaded one after another
MaxChain == 4

\* the Login page: useSetupStatus() with every redirect off
LoginPolicy == DefaultPolicy

SitePages == {"/register", "/setup", "/login"}

\* the Login page given the Register page's policy
PolicyOf_LoginAsRegister(page) ==
    IF page = "/setup" THEN SetupPolicy ELSE RegisterPolicy

PolicyOf(page) ==
    CASE page = "/register" -> RegisterPolicy
      [] page = "/setup" -> SetupPolicy
      [] OTHER -> LoginPolicy

\* a loaded document and the last settlement of its probe
Visit(page) == [page |-> page, probe |-> NoneSettled]

\* the browser replaces the document by the one window.location.href names:
\* every component of the old document is gone, LayoutContent renders the
\* new path
Load ==
    /\ href # NoHref
    /\ Len(chain) < MaxChain
    /\ pathname' = Str(href)
    /\ layout' = LayoutContent(Str(href), token)
    /\ chain' = Append([chain EXCEPT ![Len(chain)].probe = settled],
                       Visit(href))
    /\ form' = FreshForm(href)
    /\ state' = InitialState
    /\ mounted' = FALSE
    /\ nact' = 0
    /\ act' = [a \in Acts |-> IdleAct]
    /\ settled' = NoneSettled
    /\ href' = NoHref
    /\ UNCHANGED token

\* the user opens a page: its document is the first of the chain
Opened(pages) ==
    /\ ProbeInit
    /\ \E page \in pages :
        /\ pathname = Str(page)
        /\ form = FreshForm(page)
        /\ chain = <<Visit(page)>>
    /\ token \in TokenInputs
    /\ layout = LayoutContent(pathname, token)

FormInit == Opened(FormPages)

\* one visit of the Register or the Setup page, up to the load of the page
\* it navigates to
FormNext ==
    \/ Len(chain) = 1 /\ Mount(PolicyOf(form.page))
    \/ \E o \in FetchOutcomes : FetchSettle(1, o)
    \/ \E b \in Bodies : JsonSettle(1, b)
    \/ \E fld \in DOMAIN FieldInputs :
        \E v \in FieldInputs[fld] : Edit(fld, v)
    \/ Submit
    \/ \E o \in FetchOutcomes : RequestSettle(o)
    \/ \E d \in FormBodies : BodySettle(d)
    \/ TimerFire
    \/ Load

\* a registered timer runs and an assigned location is loaded
FormFairness == WF_vars(TimerFire) /\ WF_vars(Load)

FormSpec == FormInit /\ [][FormNext]_vars /\ FormFairness

-----------------------------------------------------------------------------
(* Submissions and the pages the browser is sent to *)

\* the submit handler returns in this step
Returns ==
    /\ form.pc \in {"request", "json"}
    /\ form'.pc = "idle"
    /\ chain' = chain

\* the last submission got a 2xx response that said success = true
Successful(f) == f.pc = "idle" /\ f.ok /\ f.said = "true"

\* C16: a submission of either form that got a 2xx response with success =
\* true is eventually followed by the browser being at /login; a submission
\* that ends any other way (non-2xx, success not true, an exception) assigns
\* no location, registers no timer and leaves a non-empty error message.
C16_SubmissionOutcome ==
    /\ [][(Returns /\ ~Successful(form'))
            => /\ href' = href
               /\ form'.timers = form.timers
               /\ form'.error # ""]_vars
    /\ \A page \in FormPages :
        (form.page = page /\ Successful(form)) ~> (pathname = Str("/login"))

\* the Register page showed its form after a failed probe, and the browser
\* then arrived at /login: only the form can have sent it there
C16_Witness ==
    /\ Len(chain) = 2
    /\ chain[1].page = "/register"
    /\ chain[1].probe.resp = "rejected"
    /\ pathname = Str("/login")

\* the document shown was loaded by an assignment to window.location.href
Forced == Len(chain) > 1

\* what LayoutContent renders for an auth page: the children and nothing else
Bare(l) == l.children /\ ~l.provider /\ ~l.sidebar /\ l.ctxToken = Undefined

\* C17: every location the probe or a form assigns is a public-auth path,
\* and the page loaded by such an assignment is classified public-auth and
\* rendered without the sidebar shell and without the application context,
\* whatever the session token.
C17_TargetsArePublic ==
    /\ href # NoHref => isAuthPublicPath(Str(href))
    /\ Forced => /\ isAuthPublicPath(pathname)
                 /\ Bare(layout)

\* a signed-in user on the Register page was sent to /setup by the probe
C17_Witness ==
    /\ Forced
    /\ chain[1].page = "/register"
    /\ pathname = Str("/setup")
    /\ Truthy(token)

-----------------------------------------------------------------------------
(* Chains of probe-driven page loads *)

BrowserInit == Opened(SitePages)

\* the page shown runs its probe once; the browser loads what it assigns
BrowserNext ==
    \/ nact = 0 /\ Mount(PolicyOf(chain[Len(chain)].page))
    \/ \E o \in FetchOutcomes : FetchSettle(1, o)
    \/ \E b \in Bodies : JsonSettle(1, b)
    \/ Load

BrowserSpec == BrowserInit /\ [][BrowserNext]_vars

\* the pages of the chain, in the order of their loads
ChainPages == [i \in DOMAIN chain |-> chain[i].page]

\* the probes that sent the browser on report the same status
SameStatus ==
    \A i, j \in 1..(Len(chain) - 1) :
        ParseBody(chain[i].probe.body) = ParseBody(chain[j].probe.body)

\* C19: starting on /register, /setup or /login, the pages loaded one after
\* another by probe redirects are pairwise different, at most two loads
\* follow the first page (/register, /setup, /login in that order), at most
\* one when every probe saw the same status, and the probe of /login, where
\* the longest chain ends, assigns no location.
C19_NoRedirectLoop ==
    /\ \A i, j \in DOMAIN chain : i # j => chain[i].page # chain[j].page
    /\ Len(chain) < MaxChain
    /\ Len(chain) <= Cardinality(SitePages)
    /\ Len(chain) = Cardinality(SitePages)
        => ChainPages = <<"/register", "/setup", "/login">>
    /\ SameStatus => Len(chain) <= 2
    /\ chain[Len(chain)].page = "/login" => href = NoHref

\* the longest chain, with the probe of the Login page finished
C19_Witness ==
    /\ ChainPages = <<"/register", "/setup", "/login">>
    /\ act[1].pc = "done"
    /\ settled.resp = "ok"

-----------------------------------------------------------------------------
(* Client-side validation and the submitting flag *)

\* the handler is called in this step
Submits == form'.submits = form.submits + 1

\* the inputs fail one of the page's checks
FailsChecks(f) ==
    IF f.page = "/register"
    THEN f.password # f.confirmPassword \/ Len(f.password) < MinPasswordLength
    ELSE \/ f.username = <<>>
         \/ f.password = <<>>
         \/ Len(f.password) < MinPasswordLength
         \/ f.password # f.confirmPassword

\* a request of the submit handler is in flight
Submitting(f) == f.pc \in {"request", "json"}

\* C21: a submission whose inputs fail one of the page's checks (Register:
\* passwords differ or password shorter than 6; Setup: username or password
\* empty, password shorter than 6, passwords differ) issues no request,
\* leaves the submitting flag false, assigns no location, registers no timer
\* and sets an error; a submission whose inputs pass issues the request.
C21_InvalidSubmitStaysLocal ==
    [][Submits =>
        IF FailsChecks(form)
        THEN /\ ~Submitting(form')
             /\ ~form'.isLoading
             /\ href' = href
             /\ form'.timers = form.timers
             /\ form'.error # ""
        ELSE form'.pc = "request"]_vars

\* the Setup form was submitted with an empty username and shows an error
C21_Witness ==
    /\ form.page = "/setup"
    /\ form.submits > 0
    /\ form.username = <<>>
    /\ form.said = "none"
    /\ ~Submitting(form)
    /\ form.error = T("setup.errors.required")

\* every request gets its response or fails, and every body is read or fails
SettleFairness ==
    /\ WF_vars(\E o \in FetchOutcomes : RequestSettle(o))
    /\ WF_vars(\E d \in FormBodies : BodySettle(d))

FormSettleSpec ==
    FormInit /\ [][FormNext]_vars /\ FormFairness /\ SettleFairness

\* C22: on both pages the form's isLoading is true exactly while a request
\* of the submit handler is in flight: it becomes true in the step that
\* issues the request and is false once the handler has returned, whether
\* by success, by the server's rejection or by an exception; so whenever it
\* is true it becomes false again.
C22_SubmittingOnlyInFlight ==
    /\ [](form.isLoading <=> Submitting(form))
    /\ form.isLoading ~> ~form.isLoading

\* the Setup form's handler returned early after a success: the location is
\* assigned and isLoading is false again
C22_Witness ==
    /\ form.page = "/setup"
    /\ Successful(form)
    /\ href = "/login"
    /\ ~form.isLoading

====
